---- MODULE Spec2Model ----
(***************************************************************************)
(* The streaming transcript controller of src/App.tsx (ChatInterface and   *)
(* the App root that mounts it), as a state machine.                       *)
(*                                                                         *)
(* One step of the model is one task of the browser's event loop: a user   *)
(* event handler, a timer callback, or the continuation of the async       *)
(* handleSubmit after one of its awaits.  React state written by a step is *)
(* rendered before the next step, so a handler created by the latest       *)
(* render reads the current loading and chat; the callback that            *)
(* handleSuggestionClick hands to setTimeout keeps the handleSubmit of the *)
(* render in which the card was clicked, with the loading and chat that    *)
(* render saw.                                                             *)
(*                                                                         *)
(* Strings that the code inspects (prompts, streamed text) are sequences   *)
(* of one-character strings; a nullable value is <<>> (null) or <<v>>.     *)
(***************************************************************************)
EXTENDS Naturals, Sequences, FiniteSets

VARIABLES
    apiKey,     \* App: useState apiKey, <<>> or <<key>>
    settings,   \* App: useState settings, as its systemInstruction
    history,    \* ChatInterface: useState history
    chat,       \* ChatInterface: useState chat, NoChat or a session handle
    loading,    \* ChatInterface: useState loading
    error,      \* ChatInterface: useState error, <<>> or <<message>>
    prompt,     \* ChatInterface: useState prompt (the textarea)
    timers,     \* pending setTimeout callbacks of handleSuggestionClick, in order
    tasks,      \* invocations of handleSubmit suspended at an await, oldest first
    orphans,    \* streams opened by handleSubmit calls of unmounted instances
    crashed,    \* something threw while rendering: React removed the tree
    storedKey,      \* localStorage 'gemini-api-key', <<>> or <<key>>
    storedSettings  \* localStorage 'gemini-settings', <<>> or <<text>>

vars == <<apiKey, settings, history, chat, loading, error, prompt, timers, tasks, orphans, crashed,
          storedKey, storedSettings>>

storage == <<storedKey, storedSettings>>

-----------------------------------------------------------------------------
(* Bounds of the model *)

\* messages in the transcript
MaxHistory == 4
\* text fragments delivered by the streams in flight
MaxFrags == 2
\* handleSubmit calls scheduled by a timer or suspended at an await, at once:
\* as many as have room in the transcript for a user message and a placeholder
MaxCalls == MaxHistory \div 2

-----------------------------------------------------------------------------
(* Values *)

Null == <<>>

Some(v) == <<v>>

\* chat handles.  The code tests a handle against null and calls it, nothing
\* else, so handles are named by what they are now: the session held in the
\* state chat, or a session that has been replaced
NoChat == "null"

CurrentChat == "current"

DiscardedChat == "discarded"

Whitespace == {" "}

\* what the user can type into the textarea
Prompts == {<<>>, <<" ">>, <<" ", "x">>}

\* the prompts of the suggestion cards
suggestionCards == {<<"s">>}

\* the text of the n-th fragment of a stream.  The code looks at a chunk's
\* text only to see whether it is empty, so one sequence of fragments that
\* differ in content and in size stands for them all
Fragment(n) == IF n % 2 = 1 THEN <<"a">> ELSE <<"b", "c">>

\* keys the user can submit in ApiKeyInput, already trimmed and non-empty
Keys == {"k"}

DEFAULT_SYSTEM_INSTRUCTION == "default"

Instructions == {DEFAULT_SYSTEM_INSTRUCTION, "custom"}

\* what a rejected sendMessageStream or a failing stream carries: an Error
\* with a message, or something whose message is empty or missing
StreamErrors == {Some("network down"), Null}

\* what the chat library can throw from startChatSession
SessionFaults == {"session failed"}

NotInitialized == "Chat session is not initialized."

UnexpectedError == "An unexpected error occurred."

-----------------------------------------------------------------------------
(* Pure helpers *)

Last(s) == s[Len(s)]

Front(s) == SubSeq(s, 1, Len(s) - 1)

RemoveAt(s, i) == SubSeq(s, 1, i - 1) \o SubSeq(s, i + 1, Len(s))

RECURSIVE trimStart(_)
trimStart(s) ==
    IF s = <<>> THEN s
    ELSE IF Head(s) \in Whitespace THEN trimStart(Tail(s)) ELSE s

RECURSIVE trimEnd(_)
trimEnd(s) ==
    IF s = <<>> THEN s
    ELSE IF Last(s) \in Whitespace THEN trimEnd(Front(s)) ELSE s

\* String.prototype.trim
trim(s) == trimEnd(trimStart(s))

\* JavaScript truthiness of a nullable string: null and "" are falsy
Truthy(v) == v # Null /\ v[1] # ""

\* getAiClient throws without a key; the chat library may throw (fault)
startChatSession(key, fault) ==
    IF ~Truthy(key)
    THEN [ok |-> FALSE, chat |-> NoChat,
          message |-> "The API_KEY is missing. Please provide a valid API key."]
    ELSE IF fault # Null
    THEN [ok |-> FALSE, chat |-> NoChat, message |-> fault[1]]
    ELSE [ok |-> TRUE, chat |-> CurrentChat, message |-> ""]

\* App renders ChatInterface when apiKey is truthy, ApiKeyInput otherwise
Mounted == Truthy(apiKey) /\ ~crashed

TextareaDisabled == loading \/ Truthy(error)

SubmitButtonDisabled == loading \/ trim(prompt) = <<>> \/ Truthy(error)

SuggestionsVisible == Len(history) = 0 /\ ~loading /\ ~Truthy(error)

UserMessage(text) == [role |-> "user", text |-> text]

ModelMessage(text) == [role |-> "model", text |-> text]

\* a rollback that drops the last message whatever its text
RollbackAlways(prev) == IF prev # <<>> THEN Front(prev) ELSE prev

\* the updater of the catch block: drop a trailing message whose text is empty
Rollback(prev) ==
    IF prev # <<>> /\ Last(prev).text = <<>> THEN Front(prev) ELSE prev

\* the updater of the fragment loop: the last message gets the accumulated text
SetLastText(prev, text) ==
    [prev EXCEPT ![Len(prev)] = [@ EXCEPT !.text = text]]

\* the error text without the failure's own message
ErrorMessageDefault(e) == UnexpectedError

\* err.message || 'An unexpected error occurred.'
ErrorMessage(e) == IF Truthy(e) THEN e[1] ELSE UnexpectedError

Faults == {Null} \cup {Some(f) : f \in SessionFaults}

\* A JSON text is a sequence of tokens: punctuation, or the content of a
\* string literal.  The settings object is held as its systemInstruction,
\* Undefined when the object has no such property
Undefined == "undefined"

Punctuation == {"{", "}", ":"}

\* JSON.stringify of a settings object: an undefined property is left out
stringify(instruction) ==
    IF instruction = Undefined THEN <<"{", "}">>
    ELSE <<"{", "systemInstruction", ":", instruction, "}">>

\* JSON.parse, for objects of at most one string property: the object's
\* systemInstruction, or a SyntaxError
parse(text) ==
    IF text = <<"{", "}">> THEN [threw |-> FALSE, value |-> Undefined]
    ELSE IF /\ Len(text) = 5
            /\ text[1] = "{" /\ text[3] = ":" /\ text[5] = "}"
            /\ text[2] \notin Punctuation /\ text[4] \notin Punctuation
    THEN [threw |-> FALSE,
          value |-> IF text[2] = "systemInstruction" THEN text[4] ELSE Undefined]
    ELSE [threw |-> TRUE, value |-> Undefined]

\* the initialiser of the settings state: the stored entry when there is a
\* non-empty one, DEFAULT_SETTINGS otherwise
initialSettings(entry) ==
    IF entry # Null /\ entry[1] # <<>> THEN parse(entry[1])
    ELSE [threw |-> FALSE, value |-> DEFAULT_SYSTEM_INSTRUCTION]

-----------------------------------------------------------------------------
(* Initial state: App reads the key and the settings from localStorage and *)
(* mounts ChatInterface, whose session effect runs, when a key is stored   *)

\* the useState initial values of ChatInterface, but for chat and error
ComponentReset ==
    /\ history' = <<>>
    /\ loading' = FALSE
    /\ prompt' = <<>>

Init ==
    /\ apiKey \in {Null} \cup {Some(k) : k \in Keys}
    /\ settings = DEFAULT_SYSTEM_INSTRUCTION
    /\ history = <<>>
    /\ loading = FALSE
    /\ prompt = <<>>
    /\ timers = <<>>
    /\ tasks = <<>>
    /\ orphans = 0
    /\ crashed = FALSE
    /\ storedKey = apiKey
    /\ storedSettings = Some(stringify(settings))
    /\ \E fault \in Faults :
         LET r == startChatSession(apiKey, fault) IN
           IF apiKey = Null
           THEN chat = NoChat /\ error = Null /\ fault = Null
           ELSE chat = r.chat /\ error = IF r.ok THEN Null ELSE Some(r.message)

-----------------------------------------------------------------------------
(* handleSubmit.  A task is one invocation suspended at an await:          *)
(*   text           the local variable text                                *)
(*   pc             "opening": awaiting sendMessageStream;                 *)
(*                  "streaming": inside the for-await loop                 *)
(* and, for stating properties only (the code keeps none of these):        *)
(*   prompt, before the prompt submitted and the transcript it was added to*)
(*   idle           the status was idle when the call was accepted         *)
(*   frags          the fragments applied so far, in arrival order         *)
(*   ph             where the placeholder of this call is, 0 when none     *)
(*   reset          the transcript was cleared since the call was accepted *)
(*   orphaned       the session was replaced while the call was in flight  *)
(* The calls of an unmounted instance go on, but their state setters do    *)
(* nothing: all that is left of them is a stream that is open until it     *)
(* ends, counted in orphans.                                               *)

Tasks == 1..Len(tasks)

\* placeholders that streams still being opened will append
PendingAppends == Cardinality({i \in Tasks : tasks[i].pc = "opening"})

\* sendMessageStream calls issued and neither completed nor failed
OpenStreams == Len(tasks) + orphans

\* handleSubmit calls that a timer will make or that are suspended
Calls == Len(timers) + OpenStreams

NewTask(cl, currentPrompt) ==
    [pc |-> "opening", text |-> <<>>,
     prompt |-> currentPrompt, before |-> history,
     idle |-> ~loading /\ error = Null,
     frags |-> <<>>, ph |-> 0, reset |-> FALSE, orphaned |-> FALSE]

\* a guard that does not look at the session
RejectedIgnoringChat(cl, currentPrompt) ==
    trim(currentPrompt) = <<>> \/ cl.loading

\* the guard of handleSubmit, on the loading and chat its closure holds
Rejected(cl, currentPrompt) ==
    trim(currentPrompt) = <<>> \/ cl.loading \/ cl.chat = NoChat

\* handleSubmit up to its first await, called through a closure cl of a
\* component instance that is mounted (live) or not
handleSubmit(cl, currentPrompt, live) ==
    IF Rejected(cl, currentPrompt)
    THEN /\ error' = IF cl.chat = NoChat /\ live THEN Some(NotInitialized) ELSE error
         /\ UNCHANGED <<history, loading, prompt, tasks, orphans>>
    ELSE /\ IF live
            THEN /\ Len(history) + PendingAppends + 2 <= MaxHistory
                 /\ loading' = TRUE
                 /\ error' = Null
                 /\ history' = Append(history, UserMessage(currentPrompt))
                 /\ prompt' = <<>>
                 /\ tasks' = Append(tasks, NewTask(cl, currentPrompt))
                 /\ UNCHANGED orphans
            ELSE /\ orphans' = orphans + 1
                 /\ UNCHANGED <<history, loading, error, prompt, tasks>>

\* the textarea's onChange
TypePrompt(p) ==
    /\ Mounted /\ ~TextareaDisabled
    /\ prompt' = p
    /\ UNCHANGED <<apiKey, settings, history, chat, loading, error, timers, tasks,
                   orphans, crashed>>
    /\ UNCHANGED storage

\* handleFormSubmit: Enter in the textarea, or the submit button
handleFormSubmit ==
    /\ Mounted /\ ~TextareaDisabled
    /\ Calls < MaxCalls
    /\ handleSubmit([loading |-> loading, chat |-> chat], prompt, TRUE)
    /\ UNCHANGED <<apiKey, settings, chat, timers, crashed>>
    /\ UNCHANGED storage

\* handleSuggestionClick: the timer keeps the handleSubmit of this render
handleSuggestionClick(suggestion) ==
    /\ Mounted /\ SuggestionsVisible
    /\ Calls < MaxCalls
    /\ prompt' = suggestion
    /\ timers' = Append(timers, [loading |-> loading, chat |-> chat,
                                 prompt |-> suggestion, live |-> TRUE])
    /\ UNCHANGED <<apiKey, settings, history, chat, loading, error, tasks,
                   orphans, crashed>>
    /\ UNCHANGED storage

\* the timer of handleSuggestionClick fires
TimerFire ==
    /\ ~crashed
    /\ timers # <<>>
    /\ handleSubmit([loading |-> Head(timers).loading, chat |-> Head(timers).chat],
                    Head(timers).prompt, Head(timers).live)
    /\ timers' = Tail(timers)
    /\ UNCHANGED <<apiKey, settings, chat, crashed>>
    /\ UNCHANGED storage

\* the transcript lost its last message: a call whose placeholder that was
\* has none any more
Forget(ts, index) ==
    [i \in 1..Len(ts) |-> IF ts[i].ph = index THEN [ts[i] EXCEPT !.ph = 0] ELSE ts[i]]

\* await chat.sendMessageStream resolves: the placeholder is appended
StreamOpen(i) ==
    /\ ~crashed
    /\ tasks[i].pc = "opening"
    /\ history' = Append(history, ModelMessage(<<>>))
    /\ tasks' = [tasks EXCEPT ![i].pc = "streaming", ![i].ph = Len(history) + 1]
    /\ UNCHANGED <<apiKey, settings, chat, loading, error, prompt, timers, orphans,
                   crashed>>
    /\ UNCHANGED storage

\* the fragments the streams in flight have delivered
RECURSIVE Delivered(_)
Delivered(ts) ==
    IF ts = <<>> THEN 0 ELSE Len(Head(ts).frags) + Delivered(Tail(ts))

\* what the next chunk of the stream of a task can carry: no text, or the
\* next fragment
Chunks(t) == {<<>>, Fragment(Len(t.frags) + 1)}

\* one iteration of the for-await loop.  On an empty transcript the updater
\* writes a property of undefined: it throws while React renders, and React
\* removes the whole tree
StreamChunk(i, chunkText) ==
    /\ ~crashed
    /\ tasks[i].pc = "streaming"
    /\ IF chunkText = <<>>
       THEN UNCHANGED <<history, tasks, crashed>>
       ELSE /\ Delivered(tasks) < MaxFrags
            /\ tasks' = [tasks EXCEPT ![i].text = @ \o chunkText,
                                      ![i].frags = Append(@, chunkText)]
            /\ IF history = <<>> THEN crashed' = TRUE /\ UNCHANGED history
               ELSE /\ history' = SetLastText(history, tasks[i].text \o chunkText)
                    /\ UNCHANGED crashed
    /\ UNCHANGED <<apiKey, settings, chat, loading, error, prompt, timers, orphans>>
    /\ UNCHANGED storage

\* a completion without the finally block
StreamCompleteKeepsLoading(i) ==
    /\ ~crashed
    /\ tasks[i].pc = "streaming"
    /\ tasks' = RemoveAt(tasks, i)
    /\ UNCHANGED <<apiKey, settings, history, chat, loading, error, prompt, timers,
                   orphans, crashed>>
    /\ UNCHANGED storage

\* the stream ends: the finally block
StreamComplete(i) ==
    /\ ~crashed
    /\ tasks[i].pc = "streaming"
    /\ tasks' = RemoveAt(tasks, i)
    /\ loading' = FALSE
    /\ UNCHANGED <<apiKey, settings, history, chat, error, prompt, timers, orphans,
                   crashed>>
    /\ UNCHANGED storage

\* sendMessageStream rejects, or the stream throws: catch and finally
StreamFail(i, e) ==
    /\ ~crashed
    /\ error' = Some(ErrorMessage(e))
    /\ history' = Rollback(history)
    /\ loading' = FALSE
    /\ tasks' = IF Rollback(history) = history THEN RemoveAt(tasks, i)
                ELSE Forget(RemoveAt(tasks, i), Len(history))
    /\ UNCHANGED <<apiKey, settings, chat, prompt, timers, orphans, crashed>>
    /\ UNCHANGED storage

\* the stream of a call of an unmounted instance completes or fails
OrphanEnd ==
    /\ ~crashed
    /\ orphans > 0
    /\ orphans' = orphans - 1
    /\ UNCHANGED <<apiKey, settings, history, chat, loading, error, prompt, timers,
                   tasks, crashed>>

    /\ UNCHANGED storage
-----------------------------------------------------------------------------
(* Session replacement *)

\* a closure's handle once the state chat holds another session
Discard(c) == IF c = CurrentChat THEN DiscardedChat ELSE c

\* setChat(startChatSession(...)) inside try, setError(e.message) in catch
SetSession(r) ==
    /\ error' = IF r.ok THEN Null ELSE Some(r.message)
    /\ chat' = IF r.ok THEN r.chat ELSE chat
    /\ timers' = IF r.ok
                 THEN [i \in 1..Len(timers) |-> [timers[i] EXCEPT !.chat = Discard(@)]]
                 ELSE timers

\* the calls in flight when the state chat gets another session
Replaced(ts, r) ==
    IF r.ok THEN [i \in 1..Len(ts) |-> [ts[i] EXCEPT !.orphaned = TRUE]] ELSE ts

\* the transcript was cleared: the calls in flight have no placeholder in it
MarkReset(ts) ==
    [i \in 1..Len(ts) |->
        [ts[i] EXCEPT !.ph = 0, !.reset = TRUE, !.before = <<>>, !.prompt = <<>>]]

handleNewChat(fault) ==
    /\ Mounted
    /\ history' = <<>>
    /\ SetSession(startChatSession(apiKey, fault))
    /\ tasks' = MarkReset(Replaced(tasks, startChatSession(apiKey, fault)))
    /\ UNCHANGED <<apiKey, settings, loading, prompt, orphans, crashed>>
    /\ UNCHANGED storage

\* SettingsModal's Save with an edited instruction: App's setSettings gives
\* ChatInterface a new settings object, and its session effect runs
SettingsSave(instruction, fault) ==
    /\ Mounted
    /\ settings' = instruction
    /\ SetSession(startChatSession(apiKey, fault))
    /\ tasks' = Replaced(tasks, startChatSession(apiKey, fault))
    /\ storedSettings' = Some(stringify(instruction))
    /\ UNCHANGED <<apiKey, history, loading, prompt, orphans, crashed, storedKey>>

\* a key change that leaves the stored key where it is
handleChangeApiKeyKeepsStored ==
    /\ Mounted
    /\ apiKey' = Null
    /\ ComponentReset
    /\ chat' = NoChat
    /\ error' = Null
    /\ tasks' = <<>>
    /\ orphans' = orphans + Len(tasks)
    /\ timers' = [i \in 1..Len(timers) |->
                     [timers[i] EXCEPT !.live = FALSE, !.chat = Discard(@)]]
    /\ UNCHANGED <<settings, crashed, storedKey, storedSettings>>

\* handleChangeApiKey (Change API Key, Sign Out): App renders ApiKeyInput
\* and ChatInterface is unmounted with its state
handleChangeApiKey ==
    /\ Mounted
    /\ apiKey' = Null
    /\ ComponentReset
    /\ chat' = NoChat
    /\ error' = Null
    /\ tasks' = <<>>
    /\ orphans' = orphans + Len(tasks)
    /\ timers' = [i \in 1..Len(timers) |->
                     [timers[i] EXCEPT !.live = FALSE, !.chat = Discard(@)]]
    /\ storedKey' = Null
    /\ UNCHANGED <<settings, crashed, storedSettings>>

\* ApiKeyInput's submit: a new ChatInterface is mounted and its session
\* effect runs
handleApiKeySubmit(key, fault) ==
    /\ ~Truthy(apiKey) /\ ~crashed
    /\ apiKey' = Some(key)
    /\ ComponentReset
    /\ LET r == startChatSession(Some(key), fault) IN
         /\ error' = IF r.ok THEN Null ELSE Some(r.message)
         /\ chat' = r.chat
    /\ storedKey' = Some(key)
    /\ UNCHANGED <<settings, timers, tasks, orphans, crashed, storedSettings>>

-----------------------------------------------------------------------------

\* The saved instruction is drawn with the default text: the save hands
\* ChatInterface a new settings object whatever the text is, and nothing but
\* the session it configures reads the text.
Next ==
    \/ \E p \in Prompts : TypePrompt(p)
    \/ handleFormSubmit
    \/ \E s \in suggestionCards : handleSuggestionClick(s)
    \/ TimerFire
    \/ \E i \in Tasks : StreamOpen(i)
    \/ \E i \in Tasks : \E c \in Chunks(tasks[i]) : StreamChunk(i, c)
    \/ \E i \in Tasks : StreamComplete(i)
    \/ \E i \in Tasks, e \in StreamErrors : StreamFail(i, e)
    \/ OrphanEnd
    \/ \E fault \in Faults : handleNewChat(fault)
    \/ \E fault \in Faults : SettingsSave(DEFAULT_SYSTEM_INSTRUCTION, fault)
    \/ handleChangeApiKey
    \/ \E k \in Keys, fault \in Faults : handleApiKeySubmit(k, fault)

Spec == Init /\ [][Next]_vars

\* the oldest stream in flight completes or fails
TerminateOldest ==
    /\ tasks # <<>>
    /\ \/ StreamComplete(1)
       \/ \E e \in StreamErrors : StreamFail(1, e)

\* every stream in flight ends at some time: the service completes it or
\* fails it
LiveSpec == Init /\ [][Next]_vars /\ WF_vars(TerminateOldest)

-----------------------------------------------------------------------------
(* The App root over localStorage: the page is loaded with whatever the    *)
(* two entries hold, and can be loaded again at any time.                  *)

\* what the 'gemini-settings' entry can hold when the page is loaded:
\* nothing, the empty string, a saved settings object, a truncated text, an
\* object without systemInstruction
StoredEntries ==
    {Null, Some(<<>>), Some(stringify("custom")),
     Some(<<"{", "systemInstruction">>), Some(<<"{", "}">>)}

\* what the 'gemini-api-key' entry can hold when the page is loaded: nothing,
\* the empty string, a key
StoredKeys == {Null, Some("")} \cup {Some(k) : k \in Keys}

\* App's useState initialisers and the effects of the first render.  When
\* the settings initialiser throws nothing is rendered and no effect runs
AppInit ==
    /\ storedKey \in StoredKeys
    /\ apiKey = storedKey
    /\ history = <<>>
    /\ loading = FALSE
    /\ prompt = <<>>
    /\ timers = <<>>
    /\ tasks = <<>>
    /\ orphans = 0
    /\ \E entry \in StoredEntries, fault \in Faults :
         LET l == initialSettings(entry)
             r == startChatSession(storedKey, fault) IN
           /\ crashed = l.threw
           /\ settings = l.value
           /\ storedSettings = IF l.threw THEN entry ELSE Some(stringify(l.value))
           /\ IF l.threw \/ ~Truthy(storedKey)
              THEN chat = NoChat /\ error = Null /\ fault = Null
              ELSE chat = r.chat /\ error = IF r.ok THEN Null ELSE Some(r.message)

\* the page is loaded again: App is constructed from the stored entries, and
\* the timers and streams of the page that was there are gone
PageLoad ==
    /\ apiKey' = storedKey
    /\ ComponentReset
    /\ timers' = <<>>
    /\ tasks' = <<>>
    /\ orphans' = 0
    /\ \E fault \in Faults :
         LET l == initialSettings(storedSettings)
             r == startChatSession(storedKey, fault) IN
           /\ crashed' = l.threw
           /\ settings' = l.value
           /\ storedSettings' = IF l.threw THEN storedSettings
                                ELSE Some(stringify(l.value))
           /\ IF l.threw \/ ~Truthy(storedKey)
              THEN chat' = NoChat /\ error' = Null /\ fault = Null
              ELSE chat' = r.chat /\ error' = IF r.ok THEN Null ELSE Some(r.message)
    /\ UNCHANGED storedKey

\* what the user can type into ApiKeyInput
RawKeys == {<<" ">>, <<" ", "k", " ">>}

\* the string of a one-character text
KeyText(s) == s[1]

\* ApiKeyInput's handleSubmit: a key that is blank after trimming is
\* ignored, any other is handed over trimmed
ApiKeyInputSubmit(raw) ==
    IF trim(raw) = <<>>
    THEN ~Truthy(apiKey) /\ ~crashed /\ UNCHANGED vars
    ELSE \E fault \in Faults : handleApiKeySubmit(KeyText(trim(raw)), fault)

AppNext ==
    \/ PageLoad
    \/ \E p \in Prompts : TypePrompt(p)
    \/ handleFormSubmit
    \/ \E i \in Tasks : StreamOpen(i)
    \/ \E i \in Tasks : \E c \in Chunks(tasks[i]) : StreamChunk(i, c)
    \/ \E i \in Tasks : StreamComplete(i)
    \/ \E i \in Tasks, e \in StreamErrors : StreamFail(i, e)
    \/ OrphanEnd
    \/ \E fault \in Faults : handleNewChat(fault)
    \/ \E ins \in Instructions, fault \in Faults : SettingsSave(ins, fault)
    \/ handleChangeApiKey
    \/ \E raw \in RawKeys : ApiKeyInputSubmit(raw)

AppSpec == AppInit /\ [][AppNext]_vars

-----------------------------------------------------------------------------
(* handleSubmit on its own: called with any prompt in any state of the     *)
(* mounted component.  The form and the cards call it only while they are  *)
(* enabled; its guard provides for every other call.                       *)

SubmitCall(p) ==
    /\ Mounted
    /\ Calls < MaxCalls
    /\ handleSubmit([loading |-> loading, chat |-> chat], p, TRUE)
    /\ UNCHANGED <<apiKey, settings, chat, timers, crashed>>
    /\ UNCHANGED storage

HandlerNext ==
    \/ \E p \in Prompts : SubmitCall(p)
    \/ \E p \in Prompts : TypePrompt(p)
    \/ \E i \in Tasks : StreamOpen(i)
    \/ \E i \in Tasks : \E c \in Chunks(tasks[i]) : StreamChunk(i, c)
    \/ \E i \in Tasks : StreamComplete(i)
    \/ \E i \in Tasks, e \in StreamErrors : StreamFail(i, e)
    \/ OrphanEnd
    \/ \E fault \in Faults : handleNewChat(fault)
    \/ \E fault \in Faults : SettingsSave(DEFAULT_SYSTEM_INSTRUCTION, fault)
    \/ handleChangeApiKey
    \/ \E k \in Keys, fault \in Faults : handleApiKeySubmit(k, fault)

HandlerSpec == Init /\ [][HandlerNext]_vars

-----------------------------------------------------------------------------
(* Properties.  A stream event of task i is one of StreamOpen, StreamChunk,*)
(* StreamComplete and StreamFail; a property of a step is stated as an     *)
(* action formula over the step.                                           *)

RECURSIVE Concat(_)
Concat(fs) == IF fs = <<>> THEN <<>> ELSE Head(fs) \o Concat(Tail(fs))

IsPrefix(s, t) == Len(s) <= Len(t) /\ SubSeq(t, 1, Len(s)) = s

Terminates(i) == StreamComplete(i) \/ \E e \in StreamErrors : StreamFail(i, e)

StreamEvent(i) ==
    \/ StreamOpen(i)
    \/ \E c \in Chunks(tasks[i]) : StreamChunk(i, c)
    \/ Terminates(i)

\* handleSubmit is invoked on the mounted component
SubmitInvoked == handleFormSubmit \/ (TimerFire /\ Head(timers).live)

\* C1: when the stream of an accepted submission terminates, the text of the
\* model message created for that submission is the concatenation of the
\* fragments the stream delivered, in arrival order.
C1_FinalTextIsConcatenation ==
    [][\A i \in Tasks :
         Terminates(i) /\ tasks[i].ph # 0
            => history[tasks[i].ph].text = Concat(tasks[i].frags)]_vars

\* C2: when the stream of a submission accepted while the status was idle
\* opens, the message sequence is the one before the submission grown by
\* exactly two entries: the user message, then an empty model placeholder.
C2_GrowsByUserAndPlaceholder ==
    [][\A i \in Tasks :
         StreamOpen(i) /\ tasks[i].idle
            => history' = tasks[i].before \o
                  <<UserMessage(tasks[i].prompt), ModelMessage(<<>>)>>]_vars

\* C3: invoking submit while the status is sending changes neither the length
\* of the message sequence nor the number of open streams, whether it comes
\* from the form or from a suggestion card's timer.
C3_SubmitWhileSendingIsNoOp ==
    [][loading /\ SubmitInvoked
          => Len(history') = Len(history) /\ OpenStreams' = OpenStreams]_vars

C5_FailureRollsBackPlaceholder ==
    [][\A i \in Tasks : \A e \in StreamErrors :
         StreamFail(i, e) /\ Truthy(e)
            => /\ error' = Some(e[1])
               /\ ~loading'
               /\ history # <<>> /\ Last(history) = ModelMessage(<<>>)
                     => history' = Front(history)
               /\ \A k \in 1..Len(history) :
                     history[k].role = "user"
                        => k <= Len(history') /\ history'[k] = history[k]]_vars

\* submit, the stream opens, no fragment, the stream fails with "network
\* down": the user message alone is left
C5_Witness ==
    /\ history = <<UserMessage(<<"s">>)>>
    /\ error = Some("network down")
    /\ ~loading /\ tasks = <<>> /\ timers = <<>>

\* C6: a stream failure after at least one fragment leaves the length of the
\* sequence unchanged, leaves the model message of the submission with the
\* text accumulated from its fragments, and sets an error.
C6_FailureKeepsPartialText ==
    [][\A i \in Tasks : \A e \in StreamErrors :
         StreamFail(i, e) /\ tasks[i].frags # <<>>
            => /\ Len(history') = Len(history)
               /\ error' # Null
               /\ tasks[i].ph # 0
                     => history'[tasks[i].ph] = ModelMessage(Concat(tasks[i].frags))]_vars

\* C7: new chat, from any state, leaves an empty message sequence and the
\* status idle, or error(message) when the session cannot be recreated.
C7_NewChatResets ==
    [][\A fault \in Faults :
         handleNewChat(fault)
            => /\ history' = <<>>
               /\ IF fault = Null THEN ~loading' /\ error' = Null
                  ELSE error' = Some(fault[1])]_vars

\* C8: once the session has been replaced while a stream was in flight, no
\* later event of that stream changes the message sequence or a message text.
C8_OrphanedStreamDiscarded ==
    [][\A i \in Tasks :
         tasks[i].orphaned /\ StreamEvent(i) => history' = history]_vars

\* C9: after a configuration change (the system instruction saved, or the
\* credential changed) that recreates the session, the message sequence is
\* empty and the new session is in place.
C9_ConfigChangeResets ==
    [][(\/ \E i \in Instructions : SettingsSave(i, Null)
        \/ \E k \in Keys : handleApiKeySubmit(k, Null))
          => history' = <<>> /\ chat' = CurrentChat]_vars

\* C10: at most one outbound stream is open.
C10_AtMostOneOpenStream == OpenStreams <= 1

\* handleSubmit passed its guard: a call was added
SubmitAccepted == SubmitInvoked /\ Len(tasks') > Len(tasks)

\* streams inside their fragment loop
Pending == {j \in Tasks : tasks[j].pc = "streaming"}

\* C11: handleSubmit called with a prompt that is non-empty after trimming
\* while there is no session sets the error "Chat session is not
\* initialized.", leaves the status not sending, appends no message and
\* opens no stream.
C11_NoSessionSetsError ==
    [][\A p \in Prompts :
         SubmitCall(p) /\ trim(p) # <<>> /\ chat = NoChat
            => /\ error' = Some(NotInitialized)
               /\ ~loading'
               /\ history' = history
               /\ OpenStreams' = OpenStreams]_vars

\* the component was mounted without a session, and a submit was answered
\* with the error
C11_Witness ==
    /\ Mounted /\ chat = NoChat
    /\ error = Some(NotInitialized)
    /\ history = <<>> /\ ~loading /\ tasks = <<>> /\ orphans = 0

\* C12: handleSubmit called with a prompt that is empty after trimming
\* changes nothing in any state: not the message sequence, not the status
\* or the error text, not the session, and it opens no stream.
C12_BlankSubmitIsNoOp ==
    [][\A p \in Prompts :
         SubmitCall(p) /\ trim(p) = <<>>
            => UNCHANGED <<history, loading, error, chat, tasks, orphans>>]_vars

\* C13: in the status error(message) that a stream failure left, with a
\* session, the user can submit a further prompt: the prompt input is not
\* disabled.
C13_ErrorStateAcceptsSubmit ==
    /\ Mounted /\ ~loading /\ chat # NoChat
    /\ error \in {Some(ErrorMessage(e)) : e \in StreamErrors}
    => ~TextareaDisabled

\* C14: when the stream of a submission completes, the status is idle with
\* no error, and the placeholder of the submission is in the transcript with
\* the text accumulated from its fragments, empty when there were none.
C14_CompletionLeavesIdle ==
    [][\A i \in Tasks :
         StreamComplete(i)
            => /\ ~loading' /\ error' = Null
               /\ Len(history') = Len(history)
               /\ ~tasks[i].reset
                     => /\ tasks[i].ph # 0
                        /\ history'[tasks[i].ph] = ModelMessage(Concat(tasks[i].frags))]_vars

\* C15: loading the page never throws, and when the stored settings entry
\* is absent or is not the JSON text of an object with a systemInstruction,
\* the settings are the default system instruction.
C15_LoadFallsBackToDefault ==
    [][PageLoad
          => /\ ~crashed'
             /\ (\/ storedSettings = Null
                 \/ parse(storedSettings[1]).threw
                 \/ parse(storedSettings[1]).value = Undefined)
                   => settings' = DEFAULT_SYSTEM_INSTRUCTION]_vars

\* C16: an error that is set stays, with its message, until a submission is
\* accepted, a new chat is started, or the settings or the key change: no
\* other step clears or alters it.
C16_ErrorPersists ==
    [][error # Null /\ error' # error
          => \/ SubmitAccepted
             \/ \E fault \in Faults : handleNewChat(fault)
             \/ \E ins \in Instructions, fault \in Faults : SettingsSave(ins, fault)
             \/ handleChangeApiKey]_vars

\* C17: whenever the status is sending, the transcript ends with a model
\* message, the placeholder of the submission.
C17_SendingEndsWithPlaceholder ==
    loading => history # <<>> /\ Last(history).role = "model"

\* C18: at most one stream is extending a message, and a fragment is applied
\* to the last message, which is a model message and the placeholder of the
\* submission that owns the stream.
C18_FragmentExtendsOwnPlaceholder ==
    [][\A i \in Tasks : \A c \in Chunks(tasks[i]) :
         StreamChunk(i, c) /\ c # <<>>
            => /\ Cardinality(Pending) <= 1
               /\ history # <<>>
               /\ Last(history).role = "model"
               /\ tasks[i].ph = Len(history)]_vars

\* C19: submit, stream open, fragment, completion and failure leave every
\* message but the last as it is; a fragment changes the text of the last
\* message only; and the only message ever removed is the empty placeholder
\* of a stream still in flight.
C19_AppendOnly ==
    [][(SubmitInvoked \/ \E i \in Tasks : StreamEvent(i))
          => \/ history' = history
             \/ /\ (SubmitInvoked \/ \E i \in Tasks : StreamOpen(i))
                /\ Len(history') = Len(history) + 1
                /\ Front(history') = history
             \/ /\ \E i \in Tasks : \E c \in Chunks(tasks[i]) : StreamChunk(i, c)
                /\ history # <<>>
                /\ Len(history') = Len(history)
                /\ Front(history') = Front(history)
                /\ Last(history').role = Last(history).role
             \/ /\ \E i \in Tasks, e \in StreamErrors : StreamFail(i, e)
                /\ history # <<>>
                /\ history' = Front(history)
                /\ Last(history) = ModelMessage(<<>>)
                /\ \E j \in Tasks : tasks[j].ph = Len(history)]_vars

\* C20: the status is one of idle, sending and error(message): loading and
\* an error are never set together.
C20_StatusExclusive == ~(loading /\ error # Null)

\* C21: a submission that is accepted is sent over the session the state
\* chat holds, never over a session that a new chat or a settings save has
\* replaced since the submit was scheduled.
C21_SubmissionsUseCurrentSession ==
    [][TimerFire /\ Head(timers).live /\ Len(tasks') > Len(tasks)
          => Head(timers).chat = CurrentChat]_vars

C23_ModelFollowsUser ==
    \A k \in 1..Len(history) :
       history[k].role = "model" => k > 1 /\ history[k - 1].role = "user"

\* C24: the stored key is the key in memory, ChatInterface is rendered only
\* with a non-empty trimmed key, and while App is rendered the stored
\* settings entry parses to the settings in memory.
C24_StorageMirrorsState ==
    /\ storedKey = apiKey
    /\ Mounted => apiKey # Null /\ apiKey[1] \notin Whitespace \cup {""}
    /\ (~crashed /\ storedSettings # Null)
          => /\ ~parse(storedSettings[1]).threw
             /\ parse(storedSettings[1]).value = settings
    /\ ~crashed => storedSettings # Null

\* a key was submitted, a prompt sent, and a settings save ran while the
\* session could not be recreated
C24_Witness ==
    /\ apiKey = Some("k") /\ storedKey = Some("k")
    /\ settings = "custom" /\ storedSettings = Some(stringify("custom"))
    /\ history # <<>> /\ error = Some("session failed")

====
